---------------------------- MODULE Spec2Model ----------------------------
(***************************************************************************)
(* Model of src/warranty_check.py: the batch warranty query application.   *)
(*                                                                         *)
(* The main (UI) thread runs check_warranty / execute_query; the fetch     *)
(* tasks (query_with_retry) run on the threads of a ThreadPoolExecutor.    *)
(* execute_query calls root.update() every UpdateInterval submissions and  *)
(* completions, which dispatches pending UI events (button callbacks, the  *)
(* message-queue timer) from inside the running batch; a callback that is  *)
(* check_warranty runs a whole batch nested in the enclosing one.  The     *)
(* main thread is therefore a stack of execute_query frames.               *)
(*                                                                         *)
(* A QueryResult is a mutable object: _update_result_display assigns its   *)
(* three service counts.  The cache, the store and the futures may hold    *)
(* the same object; an object is identified by (serial, oid), where oid is *)
(* the depth of the frame whose task created it (0: created by from_dict). *)
(***************************************************************************)
EXTENDS Integers, Sequences, FiniteSets, TLC

\* ------------------------------------------------------------- bounds
\* Identifiers typed by the user (already well-formed, upper case).
Serials == {"A", "B"}
\* Longest batch.
MaxInput == 2
\* Depth of nesting of check_warranty through root.update().
MaxDepth == 1
\* Number of batches started in one run of the program.
MaxBatches == 2
\* Longest document the program is started on.
MaxDoc == 3
\* Most entries of one service-detail group.
MaxItems == 2
\* Most parts of the text of the input box.
MaxParts == 3
\* The lengths the pattern of parse_serial_numbers accepts.
MinLen == 8
MaxLen == 20
\* The source pumps UI events every 20 submissions/completions and
\* checkpoints every 100 completions; both are scaled so that small
\* batches reach them.
UpdateInterval == 2
CheckpointInterval == 2

\* ------------------------------------------------------------- constants
max_workers == 96
max_retries == 2

\* Transport / decode errors an attempt may raise (str(e)).
Errors == {"timeout"}
\* Decoded non-success status codes.
Statuses == {500}

\* Decoded success payloads: data['data']['detailinfo'], each group a
\* list of DateDifference values.
Payloads ==
  { [statusCode |-> 200,
     detailinfo |-> [warranty |-> <<-5>>, onsite |-> <<3>>, other |-> << >>]] }

\* What one network attempt can produce.
Outcomes ==
  [kind : {"ok"}, payload : Payloads]
    \cup [kind : {"status"}, code : Statuses]
    \cup [kind : {"exc"}, err : Errors]

VARIABLES
  query_cache,    \* self.query_cache: serial -> QueryResult
  query_results,  \* self.query_results: serial -> QueryResult
  file,           \* query_results.json
  serial_text,    \* the input box, as its sequence of tokens
  message_queue,  \* self.message_queue
  stack,          \* the active check_warranty invocations, innermost last
  nbatches,       \* batches started so far
  disk,           \* what a write of query_results.json meets
  started         \* whether load_previous_results has run

vars == <<query_cache, query_results, file, serial_text, message_queue,
          stack, nbatches, disk, started>>

\* ------------------------------------------------------------- helpers
EmptyMap == [s \in {} |-> 0]

Put(m, k, v) == [x \in DOMAIN m \cup {k} |-> IF x = k THEN v ELSE m[x]]

\* Mutant of CountValid: an entry of 0 days remaining counts as valid.
RECURSIVE CountValidFromZero(_)
CountValidFromZero(items) ==
  IF items = << >> THEN 0
  ELSE (IF Head(items) >= 0 THEN 1 ELSE 0) + CountValidFromZero(Tail(items))

RECURSIVE CountValid(_)
CountValid(items) ==
  IF items = << >> THEN 0
  ELSE (IF Head(items) > 0 THEN 1 ELSE 0) + CountValid(Tail(items))

RECURSIVE CountExpired(_)
CountExpired(items) ==
  IF items = << >> THEN 0
  ELSE (IF Head(items) > 0 THEN 0 ELSE 1) + CountExpired(Tail(items))

\* QueryResult(serial, index, total, success, data, retry_count)
QueryResult(serial, index, total, success, data, retry_count, oid) ==
  [serial |-> serial, index |-> index, total |-> total, success |-> success,
   data |-> data, retry_count |-> retry_count,
   valid_services |-> 0, expired_services |-> 0, total_services |-> 0,
   oid |-> oid]

StatusError(code) == [error |-> IF code = 500 THEN "status 500" ELSE "status"]
TransportError(e) == [error |-> e]

\* _update_result_display: the only state it changes is the result object.
UpdateResultDisplay(r) ==
  IF r.success /\ r.data.statusCode = 200
  THEN LET d == r.data.detailinfo
           v == CountValid(d.warranty) + CountValid(d.onsite) + CountValid(d.other)
           e == CountExpired(d.warranty) + CountExpired(d.onsite)
                  + CountExpired(d.other)
       IN [r EXCEPT !.valid_services = v, !.expired_services = e,
                    !.total_services = v + e]
  ELSE r

\* Two references to the same QueryResult object.
SameObject(x, r) == x.serial = r.serial /\ x.oid = r.oid /\ x.success /\ r.success

\* The effect of mutating object r on a reference x.
Alias(x, r) == IF SameObject(x, r) THEN UpdateResultDisplay(x) ELSE x

AliasMap(m, r) == [s \in DOMAIN m |-> Alias(m[s], r)]

\* Mutant of to_dict: the three counts are not written.
to_dictNoCounts(r) ==
  [serial |-> r.serial, index |-> r.index, total |-> r.total,
   success |-> r.success, data |-> r.data, retry_count |-> r.retry_count]

\* to_dict
to_dict(r) ==
  [serial |-> r.serial, index |-> r.index, total |-> r.total,
   success |-> r.success, data |-> r.data, retry_count |-> r.retry_count,
   valid_services |-> r.valid_services,
   expired_services |-> r.expired_services,
   total_services |-> r.total_services]

\* The fields of the dataclass without and with a default value.
RequiredFields == {"serial", "index", "total", "success", "data"}
DefaultFields == {"retry_count", "valid_services", "expired_services",
                  "total_services"}

\* cls(**data) raises unless data has every required field and no unknown one.
Decodable(d) ==
  /\ RequiredFields \subseteq DOMAIN d
  /\ DOMAIN d \subseteq RequiredFields \cup DefaultFields

\* from_dict, for a decodable dict: an absent field takes its default 0.
from_dict(d) ==
  [serial |-> d.serial, index |-> d.index, total |-> d.total,
   success |-> d.success, data |-> d.data,
   retry_count |-> IF "retry_count" \in DOMAIN d THEN d.retry_count ELSE 0,
   valid_services |-> IF "valid_services" \in DOMAIN d THEN d.valid_services ELSE 0,
   expired_services |->
     IF "expired_services" \in DOMAIN d THEN d.expired_services ELSE 0,
   total_services |-> IF "total_services" \in DOMAIN d THEN d.total_services ELSE 0,
   oid |-> 0]

\* query_results.json: absent; or present and holding a JSON document, a
\* sequence of entries [key, value]; or present and not parseable (empty or
\* cut short).
NoFile == [exists |-> FALSE, valid |-> TRUE, doc |-> << >>]

TornFile == [exists |-> TRUE, valid |-> FALSE, doc |-> << >>]

\* What a write meets: the disk takes it ("ok"), the file cannot be opened
\* ("readonly"), or it is opened, hence truncated, and the write fails
\* ("full").
DiskStates == {"ok", "readonly", "full"}

\* json.dump of the dict comprehension of save_results.  Every entry it
\* writes is decodable, so the order of the entries of a written document
\* has no effect on a later load; the keys are written in one fixed order.
Document(store) ==
  LET keys == CHOOSE q \in [1..Cardinality(DOMAIN store) -> DOMAIN store] :
                \A i, j \in DOMAIN q : q[i] = q[j] => i = j
  IN [i \in DOMAIN keys |-> [key |-> keys[i], value |-> to_dict(store[keys[i]])]]

\* save_results: w is what the write meets.  The exception of a failed
\* open or write is caught and printed.
save_results(store, f, w) ==
  CASE w = "ok" -> [exists |-> TRUE, valid |-> TRUE, doc |-> Document(store)]
    [] w = "readonly" -> f
    [] w = "full" -> TornFile

\* The loop of load_previous_results: the exception of an undecodable entry
\* leaves the loop, keeping what was loaded before it.
RECURSIVE LoadEntries(_, _)
LoadEntries(doc, loaded) ==
  IF doc = << >> THEN loaded
  ELSE IF Decodable(Head(doc).value)
       THEN LoadEntries(Tail(doc), Put(loaded, Head(doc).key, from_dict(Head(doc).value)))
       ELSE loaded

\* load_previous_results
load_previous_results(f) ==
  IF f.exists /\ f.valid THEN LoadEntries(f.doc, EmptyMap) ELSE EmptyMap

\* The de-duplication loop of parse_serial_numbers.
RECURSIVE Unique(_, _)
Unique(result, seen) ==
  IF result = << >> THEN << >>
  ELSE IF Head(result) \in seen THEN Unique(Tail(result), seen)
       ELSE <<Head(result)>> \o Unique(Tail(result), seen \cup {Head(result)})

parse_serial_numbers(text) == Unique(text, {})

Inputs == {<< >>, <<"A">>, <<"A", "B">>, <<"B", "A">>, <<"A", "A">>}

\* "\n".join(failed_serials): a set is iterated in an arbitrary order.
Orderings(S) ==
  {q \in [1..Cardinality(S) -> S] : \A i, j \in 1..Cardinality(S) : q[i] = q[j] => i = j}

\* ------------------------------------------------------------- frames
NewTask == [pc |-> "new", retry_count |-> 0, attempts |-> 0, pauses |-> 0,
            hit |-> FALSE, last |-> [kind |-> "none"], result |-> [success |-> FALSE]]

NewFrame(serials) ==
  [serials |-> serials, pc |-> "submit", nsub |-> 0, completed |-> 0,
   failed_serials |-> {}, cur |-> 0, saves |-> 0,
   tasks |-> [i \in 1..Len(serials) |-> NewTask]]

Depth == Len(stack)
Top == stack[Depth]

\* The main thread is dispatching UI events: in mainloop, or inside a
\* root.update() call of the innermost batch.
InEventLoop ==
  IF Depth = 0 THEN TRUE ELSE Top.pc \in {"update_submit", "update_collect"}

\* The widgets setup_ui and create_progress_bar create, each with its master.
Master ==
  [main_frame |-> "root", progress |-> "root",
   input_frame |-> "main_frame", result_frame |-> "main_frame",
   label |-> "input_frame", serial_text |-> "input_frame",
   button_frame |-> "input_frame", result_text |-> "result_frame",
   query |-> "button_frame", clear_input |-> "button_frame",
   clear_all |-> "button_frame", export |-> "button_frame"]

\* The instances of ttk.Button.
Buttons == {"query", "clear_input", "clear_all", "export"}

winfo_children(w) == {c \in DOMAIN Master : Master[c] = w}

\* prepare_query: the widgets it sets to state 'disabled', which
\* cleanup_query sets back to 'normal'.
prepare_query == {child \in winfo_children("root") : child \in Buttons}

\* Button b can be clicked: the main thread dispatches events and b is in
\* state 'normal'.
Clickable(b) == InEventLoop /\ (Depth = 0 \/ b \notin prepare_query)

Running ==
  {<<d, i>> \in (1..Depth) \X (1..MaxInput) :
     i \in DOMAIN stack[d].tasks /\ stack[d].tasks[i].pc = "running"}

\* Mutating object r changes it wherever a future holds it.
AliasStack(st, r) ==
  [d \in DOMAIN st |->
     [st[d] EXCEPT !.tasks =
        [i \in DOMAIN st[d].tasks |->
           IF st[d].tasks[i].pc \in {"done", "handled"}
           THEN [st[d].tasks[i] EXCEPT !.result = Alias(@, r)]
           ELSE st[d].tasks[i]]]]


\* ------------------------------------------------------------- Init
\* The result file left by an earlier run of the program, if any.
PreviousRun ==
  to_dict(UpdateResultDisplay(
    QueryResult("A", 1, 1, TRUE,
                [statusCode |-> 200,
                 detailinfo |-> [warranty |-> <<-5>>, onsite |-> <<3>>,
                                 other |-> << >>]], 0, 0)))

InitFiles ==
  {NoFile,
   [exists |-> TRUE, valid |-> TRUE, doc |-> <<[key |-> "A", value |-> PreviousRun]>>]}

\* __init__ / initialize_system
Init ==
  /\ file \in InitFiles
  /\ query_results = load_previous_results(file)
  /\ query_cache = EmptyMap
  /\ serial_text = << >>
  /\ message_queue = << >>
  /\ stack = << >>
  /\ nbatches = 0
  /\ disk \in DiskStates
  /\ started = TRUE

\* ------------------------------------------------------------- UI events
clear_input ==
  /\ Clickable("clear_input")
  /\ serial_text' = << >>
  /\ UNCHANGED <<query_cache, query_results, file, message_queue, stack, nbatches, disk, started>>

\* Mutant of clear_all: the file is left on disk.
clear_all_keep_file(confirm) ==
  /\ Clickable("clear_all")
  /\ IF confirm
     THEN /\ serial_text' = << >>
          /\ query_results' = EmptyMap
          /\ file' = file
     ELSE UNCHANGED <<serial_text, query_results, file>>
  /\ UNCHANGED <<query_cache, message_queue, stack, nbatches, disk, started>>

\* clear_all: confirm is the answer to askyesno.
clear_all(confirm) ==
  /\ Clickable("clear_all")
  /\ IF confirm
     THEN /\ serial_text' = << >>
          /\ query_results' = EmptyMap
          /\ file' = NoFile
     ELSE UNCHANGED <<serial_text, query_results, file>>
  /\ UNCHANGED <<query_cache, message_queue, stack, nbatches, disk, started>>

\* export_to_csv reads the input box and the store and writes the CSV file.
export_to_csv ==
  /\ Clickable("export")
  /\ UNCHANGED vars

process_message_queue ==
  /\ InEventLoop
  /\ message_queue # << >>
  /\ message_queue' = << >>
  /\ UNCHANGED <<query_cache, query_results, file, serial_text, stack, nbatches, disk, started>>

\* The user leaves txt in the input box and presses the query button:
\* check_warranty up to the call of execute_query.  confirm is the answer
\* to validate_query's question.
check_warranty(txt, confirm) ==
  /\ Clickable("query")
  /\ serial_text' = txt
  /\ LET serials == parse_serial_numbers(txt)
     IN IF serials = << >> \/ ~confirm
        THEN UNCHANGED <<stack, nbatches>>
        ELSE /\ Depth < MaxDepth
             /\ nbatches < MaxBatches
             /\ stack' = Append(stack, NewFrame(serials))
             /\ nbatches' = nbatches + 1
  /\ UNCHANGED <<query_cache, query_results, file, message_queue, disk, started>>

\* ------------------------------------------------------------- execute_query
\* The tests of lines 176 and 187.
UpdateDue(count) == count % UpdateInterval = 0

\* The index at which the submission loop, having submitted k futures,
\* next calls root.update() or ends.
NextStop(k, n) ==
  LET u == ((k \div UpdateInterval) + 1) * UpdateInterval
  IN IF u < n THEN u ELSE n

\* The submission loop up to its next root.update() or its end.
Submit ==
  /\ Depth > 0
  /\ Top.pc = "submit"
  /\ LET n == Len(Top.serials)
         k == NextStop(Top.nsub, n)
     IN stack' = [stack EXCEPT ![Depth] =
          [@ EXCEPT !.nsub = k,
                    !.tasks = [i \in DOMAIN @ |->
                       IF i > Top.nsub /\ i <= k
                       THEN [@[i] EXCEPT !.pc = "queued"] ELSE @[i]],
                    !.pc = IF UpdateDue(k) THEN "update_submit"
                           ELSE "collect"]]
  /\ UNCHANGED <<query_cache, query_results, file, serial_text, message_queue,
                 nbatches, disk, started>>

\* The test of line 190.
IsSuccess(r) == r.success /\ r.data.statusCode = 200

\* The test of line 192.
CheckpointDue(completed) == completed % CheckpointInterval = 0

\* Mutant of NextCompleted: the counter is advanced twice.
NextCompletedTwice(completed) == completed + 2

\* completed += 1
NextCompleted(completed) == completed + 1

\* Mutant of StoreEntry: an identifier already in the store keeps its entry.
StoreEntryKeepFirst(qr, r) ==
  IF r.serial \in DOMAIN qr THEN qr ELSE Put(qr, r.serial, r)

\* Line 191: self.query_results[result.serial] = result
StoreEntry(qr, r) == Put(qr, r.serial, r)

\* Mutant of AfterSave: the exception of a failed write leaves execute_query.
AfterSaveRaises(st, w) == IF w = "ok" THEN st ELSE SubSeq(st, 1, Len(st) - 1)

\* The main thread after save_results: the except clause has caught what the
\* write raised, and the caller goes on whatever the write met.
AfterSave(st, w) == st

\* Lines 190-195, for the result the innermost frame is handling, starting
\* from stack st and store qr.
StoreResult(st, qr, w) ==
  LET f == st[Len(st)]
      r == f.tasks[f.cur].result
  IN IF IsSuccess(r)
     THEN LET qr2 == StoreEntry(qr, r)
              ckpt == CheckpointDue(f.completed)
          IN /\ query_results' = qr2
             /\ file' = IF ckpt THEN save_results(qr2, file, w) ELSE file
             /\ stack' =
                  LET st3 == [st EXCEPT ![Len(st)] =
                               [@ EXCEPT !.pc = "collect", !.cur = 0,
                                         !.saves = @ + (IF ckpt THEN 1 ELSE 0)]]
                  IN IF ckpt THEN AfterSave(st3, w) ELSE st3
     ELSE /\ query_results' = qr
          /\ file' = file
          /\ stack' = [st EXCEPT ![Len(st)] =
               [@ EXCEPT !.pc = "collect", !.cur = 0,
                         !.failed_serials = @ \cup {r.serial}]]

\* One iteration of the as_completed loop, for the future of task i.
HandleCompletion(i, w) ==
  /\ Depth > 0
  /\ Top.pc = "collect"
  /\ i \in DOMAIN Top.tasks
  /\ Top.tasks[i].pc = "done"
  /\ LET r0 == Top.tasks[i].result
         r == UpdateResultDisplay(r0)
         st1 == AliasStack(stack, r0)
         st2 == [st1 EXCEPT ![Depth] =
                   [@ EXCEPT !.completed = NextCompleted(@), !.cur = i,
                             !.tasks[i].pc = "handled",
                             !.tasks[i].result = r]]
         qr1 == AliasMap(query_results, r0)
     IN /\ query_cache' = AliasMap(query_cache, r0)
        /\ IF UpdateDue(st2[Depth].completed)
           THEN /\ stack' = [st2 EXCEPT ![Depth].pc = "update_collect"]
                /\ query_results' = qr1
                /\ file' = file
           ELSE StoreResult(st2, qr1, w)
  /\ UNCHANGED <<serial_text, message_queue, nbatches, disk, started>>

\* root.update() returns to execute_query.
UpdateReturn(w) ==
  /\ Depth > 0
  /\ \/ /\ Top.pc = "update_submit"
        /\ stack' = [stack EXCEPT ![Depth].pc =
             IF Top.nsub = Len(Top.serials) THEN "collect" ELSE "submit"]
        /\ UNCHANGED <<query_results, file>>
     \/ /\ Top.pc = "update_collect"
        /\ StoreResult(stack, query_results, w)
  /\ UNCHANGED <<query_cache, serial_text, message_queue, nbatches, disk, started>>

\* Mutant of handle_failed_queries: the notice is queued but the input box
\* keeps its text.
handle_failed_queries_keep(failed_serials) ==
  IF failed_serials # {}
  THEN /\ message_queue' =
            Append(message_queue, [failed |-> Cardinality(failed_serials)])
       /\ serial_text' = serial_text
  ELSE UNCHANGED <<message_queue, serial_text>>

\* handle_failed_queries: the notice carries the number of failed serials,
\* the input box gets the failed serials.
handle_failed_queries(failed_serials) ==
  IF failed_serials # {}
  THEN /\ message_queue' =
            Append(message_queue, [failed |-> Cardinality(failed_serials)])
       /\ serial_text' \in Orderings(failed_serials)
  ELSE UNCHANGED <<message_queue, serial_text>>

\* Mutant of FinalSave: a batch without any success is not written.
FinalSaveIfStored(f, store, fl, w) ==
  IF \E i \in DOMAIN f.tasks : IsSuccess(f.tasks[i].result)
  THEN save_results(store, fl, w) ELSE fl

\* Line 200: the write that ends the batch of frame f.
FinalSave(f, store, fl, w) == save_results(store, fl, w)

\* Lines 200-201 and cleanup_query: the final save, handle_failed_queries,
\* and the return of check_warranty.
Finalize(w) ==
  /\ Depth > 0
  /\ Top.pc = "collect"
  /\ \A i \in DOMAIN Top.tasks : Top.tasks[i].pc = "handled"
  /\ file' = FinalSave(Top, query_results, file, w)
  /\ handle_failed_queries(Top.failed_serials)
  /\ stack' = SubSeq(stack, 1, Depth - 1)
  /\ UNCHANGED <<query_cache, query_results, nbatches, disk, started>>

\* ------------------------------------------------------------- workers
\* Mutant of InCache: the cache is never consulted.
InCacheNever(cache, serial) == FALSE

\* Mutant of CacheHit: a hit is reported as a fresh result with no retry.
CacheHitFresh(cache, serial) == [cache[serial] EXCEPT !.retry_count = 0]

\* Mutant of MayRetry: one retry only.
MayRetryOnce(retry_count) == retry_count < 1

\* Mutant of SuccessResult: the retry count includes the returning attempt.
SuccessResultOffByOne(serial, index, total, data, retry_count, oid) ==
  QueryResult(serial, index, total, TRUE, data, retry_count + 1, oid)

\* Mutant of FailureResult: the status of the last attempt is dropped.
FailureResultNoStatus(serial, index, total, o, retry_count, oid) ==
  QueryResult(serial, index, total, FALSE,
              IF o.kind = "status" THEN TransportError("error")
              ELSE TransportError(o.err),
              retry_count, oid)

\* Lines 91-92: the cache test and the cached result.
InCache(cache, serial) == serial \in DOMAIN cache

CacheHit(cache, serial) == cache[serial]

\* Lines 125 and 139: another attempt follows a failed one.
MayRetry(retry_count) == retry_count < max_retries

\* Lines 114-121.
SuccessResult(serial, index, total, data, retry_count, oid) ==
  QueryResult(serial, index, total, TRUE, data, retry_count, oid)

\* Lines 129-136 and 143-150: o is the failed attempt being handled.
FailureResult(serial, index, total, o, retry_count, oid) ==
  QueryResult(serial, index, total, FALSE,
              IF o.kind = "status" THEN StatusError(o.code)
              ELSE TransportError(o.err),
              retry_count, oid)

\* Mutant of Memoize: the cache keeps a copy of the result, not the object
\* that is returned.
MemoizeCopy(cache, result) ==
  IF result.success
  THEN Put(cache, result.serial, [result EXCEPT !.oid = 0]) ELSE cache

\* Mutant of Memoize: what query_with_retry returns is cached, whatever it is.
MemoizeAll(cache, result) == Put(cache, result.serial, result)

\* The cache after query_with_retry has built the result it returns: only
\* the success path writes it (line 122), under the serial queried.
Memoize(cache, result) ==
  IF result.success THEN Put(cache, result.serial, result) ELSE cache

\* A pool thread takes task i of frame d and enters query_with_retry.
StartTask(d, i) ==
  /\ d \in 1..Depth
  /\ i \in DOMAIN stack[d].tasks
  /\ stack[d].tasks[i].pc = "queued"
  /\ Cardinality(Running) < max_workers
  /\ LET serial == stack[d].serials[i]
     IN stack' = [stack EXCEPT ![d].tasks[i] =
          IF InCache(query_cache, serial)
          THEN [@ EXCEPT !.pc = "done", !.hit = TRUE,
                         !.result = CacheHit(query_cache, serial)]
          ELSE [@ EXCEPT !.pc = "running"]]
  /\ UNCHANGED <<query_cache, query_results, file, serial_text, message_queue,
                 nbatches, disk, started>>

\* One iteration of the retry loop of query_with_retry.
Attempt(d, i, o) ==
  /\ d \in 1..Depth
  /\ i \in DOMAIN stack[d].tasks
  /\ stack[d].tasks[i].pc = "running"
  /\ LET t == stack[d].tasks[i]
         serial == stack[d].serials[i]
         total == Len(stack[d].serials)
         t1 == [t EXCEPT !.attempts = @ + 1, !.last = o]
     IN IF o.kind = "ok"
        THEN LET result == SuccessResult(serial, i, total, o.payload,
                                         t.retry_count, d)
             IN /\ query_cache' = Memoize(query_cache, result)
                /\ stack' = [stack EXCEPT ![d].tasks[i] =
                     [t1 EXCEPT !.pc = "done", !.result = result]]
        ELSE IF MayRetry(t.retry_count)
             THEN /\ query_cache' = query_cache
                  /\ stack' = [stack EXCEPT ![d].tasks[i] =
                       [t1 EXCEPT !.retry_count = @ + 1, !.pauses = @ + 1]]
             ELSE LET result == FailureResult(serial, i, total, o,
                                              t.retry_count, d)
                  IN /\ query_cache' = Memoize(query_cache, result)
                     /\ stack' = [stack EXCEPT ![d].tasks[i] =
                          [t1 EXCEPT !.pc = "done", !.result = result]]
  /\ UNCHANGED <<query_results, file, serial_text, message_queue, nbatches, disk, started>>

\* ------------------------------------------------------------- environment
\* The disk changes between two writes.
DiskChange(d) ==
  /\ d # disk
  /\ disk' = d
  /\ UNCHANGED <<query_cache, query_results, file, serial_text, message_queue,
                 stack, nbatches, started>>

\* ------------------------------------------------------------- Next
Next ==
  \/ clear_input
  \/ \E confirm \in BOOLEAN : clear_all(confirm)
  \/ process_message_queue
  \/ export_to_csv
  \/ \E txt \in Inputs, confirm \in BOOLEAN : check_warranty(txt, confirm)
  \/ Submit
  \/ \E i \in 1..MaxInput : HandleCompletion(i, disk)
  \/ UpdateReturn(disk)
  \/ Finalize(disk)
  \/ \E d \in DiskStates : DiskChange(d)
  \/ \E d \in 1..MaxDepth, i \in 1..MaxInput : StartTask(d, i)
  \/ \E d \in 1..MaxDepth, i \in 1..MaxInput, o \in Outcomes : Attempt(d, i, o)

Spec == Init /\ [][Next]_vars

\* ------------------------------------------------------------- startup
\* The keys of the documents the program is started on.
DocKeys == Serials \cup {"C"}

\* An entry as the program writes it.
Stored(k) ==
  to_dict(UpdateResultDisplay(
    QueryResult(k, 1, 1, TRUE, CHOOSE p \in Payloads : TRUE, 0, 0)))

\* An entry holding only the fields without a default.
Legacy(k) ==
  [serial |-> k, index |-> 1, total |-> 1, success |-> TRUE,
   data |-> CHOOSE p \in Payloads : TRUE]

\* An entry cls(**data) raises on: a required field is missing.
Undecodable(k) == [serial |-> k, success |-> TRUE]

Entries ==
  {[key |-> k, value |-> v] : k \in DocKeys, v \in {"stored", "legacy", "bad"}}

Value(e) ==
  CASE e.value = "stored" -> Stored(e.key)
    [] e.value = "legacy" -> Legacy(e.key)
    [] e.value = "bad" -> Undecodable(e.key)

\* The documents of at most MaxDoc entries, no key twice.
Documents ==
  {NoFile, TornFile} \cup
  UNION {{[exists |-> TRUE, valid |-> TRUE,
           doc |-> [i \in 1..n |-> [key |-> q[i].key, value |-> Value(q[i])]]] :
            q \in {x \in [1..n -> Entries] :
                     \A i, j \in 1..n : x[i].key = x[j].key => i = j}} :
         n \in 0..MaxDoc}

\* __init__ before load_previous_results, on any file.
LoadInit ==
  /\ file \in Documents
  /\ query_results = EmptyMap
  /\ query_cache = EmptyMap
  /\ serial_text = << >>
  /\ message_queue = << >>
  /\ stack = << >>
  /\ nbatches = 0
  /\ disk \in DiskStates
  /\ started = FALSE

\* initialize_system calls load_previous_results.
Startup ==
  /\ ~started
  /\ started' = TRUE
  /\ query_results' = load_previous_results(file)
  /\ UNCHANGED <<query_cache, file, serial_text, message_queue, stack,
                 nbatches, disk>>

LoadSpec == LoadInit /\ [][Startup]_vars

\* ------------------------------------------------------------- display
\* The days remaining of a service-detail entry.
Days == {-5, 0, 3}

\* The entries of one group: at most MaxItems of them.
Groups == UNION {[1..n -> Days] : n \in 0..MaxItems}

\* The payloads of status 200 over these groups.
CountPayloads ==
  {[statusCode |-> 200, detailinfo |-> [warranty |-> w, onsite |-> o, other |-> x]] :
     w \in Groups, o \in Groups, x \in Groups}

\* What the only query of a one-identifier batch has returned: a Success at
\* the first attempt with any payload, or a Failure after the last attempt.
CountTasks ==
  {[NewTask EXCEPT !.pc = "done", !.attempts = 1,
                   !.last = [kind |-> "ok", payload |-> p],
                   !.result = SuccessResult("A", 1, 1, p, 0, 1)] :
     p \in CountPayloads}
  \cup
  {[NewTask EXCEPT !.pc = "done", !.attempts = max_retries + 1,
                   !.retry_count = max_retries, !.pauses = max_retries,
                   !.last = o,
                   !.result = FailureResult("A", 1, 1, o, max_retries, 1)] :
     o \in {x \in Outcomes : x.kind # "ok"}}

\* A batch of the one identifier A, started on an empty store, whose query
\* has ended and whose completion is about to be handled.
CountInit ==
  /\ \E t \in CountTasks :
       /\ stack = <<[NewFrame(<<"A">>) EXCEPT !.pc = "collect", !.nsub = 1,
                                             !.tasks = <<t>>]>>
       /\ query_cache = Memoize(EmptyMap, t.result)
  /\ query_results = EmptyMap
  /\ file = NoFile
  /\ serial_text = <<"A">>
  /\ message_queue = << >>
  /\ nbatches = 1
  /\ disk = "ok"
  /\ started = TRUE

CountNext ==
  \/ \E i \in 1..MaxInput : HandleCompletion(i, disk)
  \/ Finalize(disk)

CountSpec == CountInit /\ [][CountNext]_vars

\* ------------------------------------------------------------- input
\* The characters of the input box: letters, a digit and a character that
\* is neither.
Alnum == {"a", "b", "A", "B", "1"}

\* str.upper, on one character.
Upper(c) == CASE c = "a" -> "A" [] c = "b" -> "B" [] OTHER -> c

\* serial.upper()
upper(serial) == [i \in DOMAIN serial |-> Upper(serial[i])]

\* Mutant of Matches: a token of MaxLen + 1 characters is taken too.
MatchesOneMore(serial) ==
  /\ Len(serial) >= MinLen /\ Len(serial) <= MaxLen + 1
  /\ \A i \in DOMAIN serial : serial[i] \in Alnum

\* re.match(r'^[A-Za-z0-9]{8,20}$', serial)
Matches(serial) ==
  /\ Len(serial) >= MinLen /\ Len(serial) <= MaxLen
  /\ \A i \in DOMAIN serial : serial[i] \in Alnum

\* The validation loop over the parts of the text: result and
\* invalid_serials.
RECURSIVE Valid(_)
Valid(parts) ==
  IF parts = << >> THEN << >>
  ELSE (IF Matches(Head(parts)) THEN <<upper(Head(parts))>> ELSE << >>)
         \o Valid(Tail(parts))

RECURSIVE Invalid(_)
Invalid(parts) ==
  IF parts = << >> THEN << >>
  ELSE (IF Matches(Head(parts)) THEN << >> ELSE <<Head(parts)>>)
         \o Invalid(Tail(parts))

\* The duplicates list of the de-duplication loop.
RECURSIVE Duplicates(_, _)
Duplicates(result, seen) ==
  IF result = << >> THEN << >>
  ELSE IF Head(result) \in seen
       THEN <<Head(result)>> \o Duplicates(Tail(result), seen)
       ELSE Duplicates(Tail(result), seen \cup {Head(result)})

\* parse_serial_numbers on the parts the text splits into, each a sequence
\* of characters: what it returns and what its warning reports.
ParseParts(parts) ==
  [unique |-> Unique(Valid(parts), {}),
   invalid |-> Invalid(parts),
   duplicates |-> Duplicates(Valid(parts), {})]

\* n times the character c.
Rep(c, n) == [i \in 1..n |-> c]

\* The parts tried: of MinLen - 1, MinLen, MaxLen and MaxLen + 1
\* characters, in either case and of digits, and of MinLen characters one
\* of which is not alphanumeric or of the other case.
Parts ==
  {Rep("A", n) : n \in {MinLen - 1, MinLen, MaxLen, MaxLen + 1}}
  \cup {Rep("a", MinLen), Rep("1", MinLen), Rep("b", MaxLen)}
  \cup {[Rep("A", MinLen) EXCEPT ![k] = c] : k \in {1, MinLen}, c \in {"-", "a"}}

ParseInputs == UNION {[1..n -> Parts] : n \in 0..MaxParts}

\* The program idle, the input box holding any of these texts.
ParseInit ==
  /\ serial_text \in ParseInputs
  /\ query_results = EmptyMap
  /\ query_cache = EmptyMap
  /\ file = NoFile
  /\ message_queue = << >>
  /\ stack = << >>
  /\ nbatches = 0
  /\ disk = "ok"
  /\ started = TRUE

\* check_warranty on the text of the input box, the question of
\* validate_query answered yes: the batch is what parse_serial_numbers
\* returned, unless that is empty.
ParseAndStart ==
  /\ Depth = 0
  /\ LET serials == ParseParts(serial_text).unique
     IN /\ serials # << >>
        /\ stack' = <<NewFrame(serials)>>
  /\ nbatches' = nbatches + 1
  /\ UNCHANGED <<query_cache, query_results, file, serial_text, message_queue,
                 disk, started>>

ParseSpec == ParseInit /\ [][ParseAndStart]_vars

\* The main thread runs execute_query to its end: no step of it waits for
\* anything but a finished future.
MainThread ==
  \/ Submit
  \/ \E i \in 1..MaxInput : HandleCompletion(i, disk)
  \/ UpdateReturn(disk)
  \/ Finalize(disk)

\* The pool runs every submitted task: each attempt ends, by a response or by
\* the timeout of session.get.
Workers ==
  \/ \E d \in 1..MaxDepth, i \in 1..MaxInput : StartTask(d, i)
  \/ \E d \in 1..MaxDepth, i \in 1..MaxInput, o \in Outcomes : Attempt(d, i, o)

\* What an earlier batch of this run fetched for A, displayed and stored.
EarlierBatch ==
  UpdateResultDisplay(
    SuccessResult("A", 1, 1, CHOOSE p \in Payloads : TRUE, 0, 1))

\* The program idle with one batch still to run.  No batch has fetched
\* anything yet, or an earlier batch has left its result in the cache and in
\* the store, and on disk what its final write met.
LastBatchInit ==
  /\ serial_text = << >>
  /\ message_queue = << >>
  /\ stack = << >>
  /\ nbatches = MaxBatches - 1
  /\ disk \in DiskStates
  /\ started = TRUE
  /\ \/ /\ query_cache = EmptyMap
        /\ file \in InitFiles
        /\ query_results = load_previous_results(file)
     \/ /\ query_cache = [s \in {"A"} |-> EarlierBatch]
        /\ query_results = query_cache
        /\ \E w \in DiskStates : file = save_results(query_results, NoFile, w)

FairSpec ==
  LastBatchInit /\ [][Next]_vars /\ WF_vars(MainThread) /\ WF_vars(Workers)


\* ------------------------------------------------------------- properties
TaskIds(st) == {<<d, i>> \in (1..Len(st)) \X (1..MaxInput) : i \in DOMAIN st[d].tasks}

Finished(t) == t.pc \in {"done", "handled"}

\* Frame d has handled every completion of its batch.
AllHandled(d) == \A i \in DOMAIN stack[d].tasks : stack[d].tasks[i].pc = "handled"

\* C1: whenever the completion counter of a batch has reached a multiple of
\* the checkpoint interval and that completion has been handled, the store
\* has been saved for it: the saves of the batch number at least
\* completed \div CheckpointInterval, whatever the outcome of the completion.
C1_CheckpointEveryInterval ==
  \A d \in 1..Depth :
    stack[d].pc = "collect" =>
      stack[d].saves >= stack[d].completed \div CheckpointInterval

\* C2: when the completion loop of a batch has ended, the store holds, for
\* every identifier of the batch, the result of its completion, success or
\* failure.
C2_StoreReflectsLastCompletion ==
  \A d \in 1..Depth :
    (stack[d].pc = "collect" /\ AllHandled(d)) =>
      \A i \in DOMAIN stack[d].tasks :
        /\ stack[d].serials[i] \in DOMAIN query_results
        /\ query_results[stack[d].serials[i]] = stack[d].tasks[i].result

C4_CachedQueryNoNetwork ==
  [][\A id \in TaskIds(stack) :
       LET d == id[1]
           i == id[2]
           t == stack[d].tasks[i]
           serial == stack[d].serials[i]
       IN d <= Len(stack') =>
            LET u == stack'[d].tasks[i]
            IN /\ (t.pc = "queued" /\ u.pc # "queued" /\ serial \in DOMAIN query_cache)
                    => /\ u.pc = "done"
                       /\ u.hit
                       /\ u.result = query_cache[serial]
               /\ u.hit => /\ u.attempts = 0
                           /\ u.pauses = 0
                           /\ u.result.success
               /\ t.hit => /\ u.hit
                           /\ u.result.oid = t.result.oid
                           /\ to_dict(u.result).data = to_dict(t.result).data
                           /\ u.result.retry_count = t.result.retry_count]_vars

C4_Witness ==
  \E id \in TaskIds(stack) :
    LET t == stack[id[1]].tasks[id[2]]
    IN /\ t.hit /\ t.pc = "handled" /\ t.attempts = 0 /\ t.pauses = 0
       /\ query_cache[t.result.serial] = t.result

\* C5: a step of a fetch task (its future passes from running to done)
\* leaves the cache as it was.
C5_FetcherNeverWritesCache ==
  [][\A id \in TaskIds(stack) :
       LET d == id[1]
           i == id[2]
       IN (d <= Len(stack') /\ stack[d].tasks[i].pc = "running"
             /\ stack'[d].tasks[i].pc = "done")
            => query_cache' = query_cache]_vars

\* C6: a live query makes at most max_retries + 1 attempts, none after an
\* attempt that succeeded, and exactly max_retries + 1 when it fails.
C6_AttemptsBounded ==
  \A id \in TaskIds(stack) :
    LET t == stack[id[1]].tasks[id[2]]
    IN /\ t.attempts <= max_retries + 1
       /\ t.pc = "running" => (t.last.kind # "ok" /\ t.attempts <= max_retries)
       /\ (Finished(t) /\ ~t.hit /\ t.result.success) => t.last.kind = "ok"
       /\ (Finished(t) /\ ~t.hit /\ ~t.result.success) =>
            (t.attempts = max_retries + 1 /\ t.last.kind \in {"status", "exc"})

C6_Witness ==
  \E id \in TaskIds(stack) :
    LET t == stack[id[1]].tasks[id[2]]
    IN /\ t.pc = "done" /\ ~t.hit /\ ~t.result.success
       /\ t.attempts = 3 /\ t.last.kind = "exc"

\* C7: the retry_count of the result of a live query is the number of
\* failed attempts before the returning one, within 0..max_retries; it is
\* max_retries for a failure.
C7_RetryCountIsFailedAttempts ==
  \A id \in TaskIds(stack) :
    LET t == stack[id[1]].tasks[id[2]]
    IN (Finished(t) /\ ~t.hit) =>
         /\ t.result.retry_count = t.attempts - 1
         /\ t.result.retry_count = t.pauses
         /\ t.result.retry_count \in 0..max_retries
         /\ ~t.result.success => t.result.retry_count = 2

C7_Witness ==
  \E id \in TaskIds(stack) :
    LET t == stack[id[1]].tasks[id[2]]
    IN /\ Finished(t) /\ ~t.hit /\ t.result.success
       /\ t.result.retry_count = 2 /\ t.attempts = 3

\* C8: the reason of a failure is that of the last attempt: its transport
\* error if it raised, its status if it returned a non-success status.
C8_ReasonOfLastAttempt ==
  \A id \in TaskIds(stack) :
    LET t == stack[id[1]].tasks[id[2]]
    IN (Finished(t) /\ ~t.hit /\ ~t.result.success) =>
         \/ t.last.kind = "exc" /\ t.result.data = [error |-> t.last.err]
         \/ /\ t.last.kind = "status" /\ t.last.code = 500
            /\ t.result.data = [error |-> "status 500"]

C8_Witness ==
  \E id \in TaskIds(stack) :
    LET t == stack[id[1]].tasks[id[2]]
    IN /\ t.pc = "handled" /\ ~t.hit /\ ~t.result.success
       /\ t.last.kind = "status" /\ t.result.data = [error |-> "status 500"]

\* The number of completions frame f has handled.
Handled(f) == Cardinality({i \in DOMAIN f.tasks : f.tasks[i].pc = "handled"})

\* C9: the completion counter of a batch starts at 0, moves only by +1 and
\* only when a completion is handled, never passes the batch size, and is
\* the batch size when the batch ends.
C9_CompletedCountsUp ==
  [][/\ \A d \in 1..Len(stack) :
          d <= Len(stack') =>
            LET f == stack[d]
                g == stack'[d]
            IN /\ g.completed \in {f.completed, f.completed + 1}
               /\ g.completed = Handled(g)
               /\ g.completed <= Len(g.serials)
     /\ Len(stack') > Len(stack) => stack'[Len(stack')].completed = 0
     /\ Len(stack') < Len(stack) => Top.completed = Len(Top.serials)]_vars

C9_Witness ==
  \E d \in 1..Depth :
    /\ Len(stack[d].serials) = 2
    /\ stack[d].completed = 2
    /\ \E i \in 1..2 : stack[d].tasks[i].hit
    /\ \E i \in 1..2 : ~stack[d].tasks[i].result.success

\* The identifiers of frame f whose completion was not a success.
NotSucceeded(f) == {f.serials[i] : i \in {j \in DOMAIN f.tasks : ~f.tasks[j].result.success}}

Range(q) == {q[i] : i \in DOMAIN q}

\* C10: when a batch ends, its failed set is the set of its identifiers
\* whose completion was not a success; if it is not empty one notice is
\* queued and the input becomes exactly these identifiers, otherwise no
\* notice is queued and the input stays.
C10_FailedSetReported ==
  [][Len(stack') < Len(stack) =>
       LET F == NotSucceeded(Top)
       IN /\ Top.failed_serials = F
          /\ IF F # {}
             THEN /\ message_queue' = Append(message_queue, [failed |-> Cardinality(F)])
                  /\ Range(serial_text') = F
                  /\ Len(serial_text') = Cardinality(F)
             ELSE /\ message_queue' = message_queue
                  /\ serial_text' = serial_text]_vars

C10_Witness ==
  /\ Depth = 0
  /\ nbatches = 1
  /\ message_queue = <<[failed |-> 1]>>
  /\ serial_text = <<"B">>
  /\ "A" \in DOMAIN query_cache


\* C11: under fair scheduling every started batch reaches its finalization
\* and the program is idle again, whatever the fetches return and whatever
\* the writes meet; the batch ends only by its finalization, after every
\* completion has been handled, and the step that ends it does the final
\* write, leaves the store as it is and reports the failed set.
C11_BatchEnds ==
  /\ (Depth > 0) ~> (Depth = 0)
  /\ [][Len(stack') < Len(stack) =>
          /\ AllHandled(Depth)
          /\ query_results' = query_results
          /\ file' = save_results(query_results, file, disk)
          /\ Top.failed_serials # {} => message_queue' # message_queue]_vars

\* A batch has ended on a disk that took no write: the result of the batch
\* is in the store and the file is torn.
C11_Witness ==
  /\ Depth = 0
  /\ nbatches = MaxBatches
  /\ file = TornFile
  /\ "B" \in DOMAIN query_results
  /\ query_results["B"].oid = 1

\* C12: the step that ends a batch writes the store once more, whatever the
\* size of the batch, whether or not a completion succeeded and whether or
\* not a checkpoint was just written: on a disk that takes the write the file
\* then holds the document of the whole store, and in every case the frame
\* being left has handled all its completions and has not reported the
\* failed set before.
C12_FinalSave ==
  [][Len(stack') < Len(stack) =>
       /\ disk = "ok" =>
            file' = [exists |-> TRUE, valid |-> TRUE,
                     doc |-> Document(query_results')]
       /\ Top.completed = Len(Top.serials)
       /\ message_queue' \in {message_queue,
                               Append(message_queue,
                                      [failed |-> Cardinality(Top.failed_serials)])}]_vars

\* A one-identifier batch in which nothing succeeded has ended: the file,
\* absent before, holds the empty document.
C12_Witness ==
  /\ Depth = 0
  /\ nbatches = 1
  /\ query_cache = EmptyMap
  /\ Len(message_queue) = 1
  /\ file = [exists |-> TRUE, valid |-> TRUE, doc |-> << >>]

\* The entries of document f that decode.
DecodableEntries(f) == {i \in DOMAIN f.doc : Decodable(f.doc[i].value)}

\* C13: after the load of a document in which one entry cannot be decoded,
\* the store holds every other entry of the document, wherever the bad
\* entry sits.
C13_SkipsOnlyBadEntry ==
  (/\ started
   /\ file.exists /\ file.valid
   /\ Cardinality(DOMAIN file.doc \ DecodableEntries(file)) = 1)
  => /\ DOMAIN query_results = {file.doc[i].key : i \in DecodableEntries(file)}
     /\ \A i \in DecodableEntries(file) :
          query_results[file.doc[i].key] = from_dict(file.doc[i].value)

\* The load of file f fails: f is missing or not parseable, or one of its
\* entries cannot be decoded.
LoadFails(f) ==
  \/ ~f.exists
  \/ ~f.valid
  \/ DecodableEntries(f) # DOMAIN f.doc

\* C14: after a load that fails the store is empty, never partially filled.
C14_FailedLoadEmptyStore ==
  (started /\ LoadFails(file)) => query_results = EmptyMap

\* What the store would be after save_results on a disk that takes the write
\* and load_previous_results.
Reloaded == load_previous_results(save_results(query_results, file, "ok"))

\* C15: whatever the store holds, writing it and loading what was written
\* gives the same identifiers and, for each of them, the same identifier
\* field, outcome, payload, retry count and service counts.
C15_RoundTrip ==
  LET reloaded == Reloaded
  IN /\ DOMAIN reloaded = DOMAIN query_results
     /\ \A s \in DOMAIN query_results :
          LET r == reloaded[s]
              q == query_results[s]
          IN /\ r.serial = q.serial
             /\ r.success = q.success
             /\ r.data = q.data
             /\ r.retry_count = q.retry_count
             /\ r.valid_services = q.valid_services
             /\ r.expired_services = q.expired_services
             /\ r.total_services = q.total_services

\* Two results of batches are in the store, one of them fetched at the last
\* attempt, and the file holds the document written from that store.
C15_Witness ==
  /\ DOMAIN query_results = {"A", "B"}
  /\ query_results["A"].oid = 1
  /\ query_results["A"].retry_count = max_retries
  /\ query_results["A"].total_services = 2
  /\ query_results["B"].oid = 1
  /\ file = save_results(query_results, NoFile, "ok")
  /\ DOMAIN load_previous_results(file) = {"A", "B"}

\* C16: the file is replaced atomically by every write: whenever it exists
\* it holds a complete document, the previous one or the new one, never an
\* empty or partial one.
C16_FileNeverTorn == file.exists => file.valid

\* The step ends the handling of completion i by frame d: directly, or when
\* root.update() returns.
HandlingEnds(d, i) ==
  /\ d \in 1..Len(stack) /\ d \in 1..Len(stack')
  /\ i \in DOMAIN stack[d].tasks
  /\ stack'[d].pc = "collect"
  /\ stack'[d].tasks[i].pc = "handled"
  /\ \/ stack[d].pc = "collect" /\ stack[d].tasks[i].pc = "done"
     \/ stack[d].pc = "update_collect" /\ stack[d].cur = i

\* C17: the store holds one entry per identifier, the one whose serial is
\* its key, and right after a completion that is a Success has been handled
\* the entry of its identifier is that result, whatever the store held for
\* the identifier before.
C17_StoreHoldsLatestSuccess ==
  /\ [](\A s \in DOMAIN query_results : query_results[s].serial = s)
  /\ [][\A d \in 1..MaxDepth, i \in 1..MaxInput :
          (HandlingEnds(d, i) /\ IsSuccess(stack'[d].tasks[i].result)) =>
            LET r == stack'[d].tasks[i].result
            IN /\ r.serial \in DOMAIN query_results'
               /\ query_results'[r.serial] = r]_vars

\* The first completion of the first batch, a Success for A, has been
\* handled and no write has been made: the file is the one the program was
\* started on, whose entry for A was loaded, and the store now holds the
\* result of the batch for A.
C17_Witness ==
  /\ Depth = 1
  /\ nbatches = 1
  /\ Top.pc = "collect"
  /\ Top.completed = 1
  /\ Top.saves = 0
  /\ file.exists
  /\ \E i \in DOMAIN Top.tasks :
       /\ Top.tasks[i].pc = "handled"
       /\ Top.tasks[i].result.serial = "A"
       /\ IsSuccess(Top.tasks[i].result)
       /\ Top.tasks[i].result.retry_count = 1
       /\ query_results["A"] = Top.tasks[i].result

\* C18: every entry of the cache is a Success, of status 200, whose serial
\* is its key, and a step in which a query ends as a Failure or an attempt
\* fails leaves the cache as it is.
C18_CacheHoldsSuccessesOnly ==
  /\ [](\A s \in DOMAIN query_cache :
          /\ query_cache[s].success
          /\ query_cache[s].data.statusCode = 200
          /\ query_cache[s].serial = s)
  /\ [][\A d \in 1..MaxDepth, i \in 1..MaxInput :
          (/\ d \in 1..Len(stack) /\ d \in 1..Len(stack')
           /\ i \in DOMAIN stack[d].tasks
           /\ stack[d].tasks[i].pc = "running"
           /\ stack'[d].tasks[i].attempts = stack[d].tasks[i].attempts + 1
           /\ stack'[d].tasks[i].last.kind # "ok")
          => query_cache' = query_cache]_vars

\* In a batch A,B the query of A has succeeded and is cached, the query of
\* B has ended as a Failure after all its attempts and is not.
C18_Witness ==
  /\ Depth = 1
  /\ DOMAIN query_cache = {"A"}
  /\ \E i \in DOMAIN Top.tasks :
       /\ Top.tasks[i].pc = "done"
       /\ Top.tasks[i].result.serial = "B"
       /\ ~Top.tasks[i].result.success
       /\ Top.tasks[i].attempts = max_retries + 1

\* C19: a step that removes an entry from the store or deletes the file is
\* a confirmed clear_all, made from the event loop and leaving the store
\* empty and the file absent; every confirmed clear_all leaves them so and
\* a declined one changes neither.
C19_OnlyClearAllRemoves ==
  [][/\ (\/ DOMAIN query_results \ DOMAIN query_results' # {}
          \/ (file.exists /\ ~file'.exists))
        => /\ InEventLoop
           /\ query_results' = EmptyMap
           /\ ~file'.exists
           /\ serial_text' = << >>
           /\ UNCHANGED <<query_cache, message_queue, stack, nbatches>>
     /\ clear_all(TRUE) => (query_results' = EmptyMap /\ ~file'.exists)
     /\ clear_all(FALSE) => UNCHANGED <<query_results, file>>]_vars

\* A batch has stored its results for A and B and has ended, and a confirmed
\* clear_all has then emptied the store and removed the file; the cache
\* still holds both results.
C19_Witness ==
  /\ Depth = 0
  /\ DOMAIN query_cache = {"A", "B"}
  /\ query_results = EmptyMap
  /\ ~file.exists

\* The service-detail entries of payload p in the three groups.
DetailEntries(p) == p.detailinfo.warranty \o p.detailinfo.onsite \o p.detailinfo.other

\* C20: a delivered Success carries as valid the number of entries of its
\* three groups with more than 0 days remaining, as expired the number of
\* those with 0 days or less, and as total the number of all of them, which
\* is the sum of the two; a delivered Failure carries three counts of 0.
C20_CountsEveryEntryOnce ==
  \A d \in 1..Depth : \A i \in DOMAIN stack[d].tasks :
    stack[d].tasks[i].pc = "handled" =>
      LET r == stack[d].tasks[i].result
      IN IF IsSuccess(r)
         THEN LET e == DetailEntries(r.data)
              IN /\ r.valid_services = Cardinality({k \in DOMAIN e : e[k] > 0})
                 /\ r.expired_services = Cardinality({k \in DOMAIN e : e[k] <= 0})
                 /\ r.total_services = Len(e)
                 /\ r.total_services = r.valid_services + r.expired_services
         ELSE /\ r.valid_services = 0
              /\ r.expired_services = 0
              /\ r.total_services = 0

\* The Success whose payload has the single entry of -5 days remaining has
\* been delivered: valid 0, expired 1, total 1.
C20_Witness ==
  /\ Depth = 1
  /\ Top.tasks[1].pc = "handled"
  /\ IsSuccess(Top.tasks[1].result)
  /\ DetailEntries(Top.tasks[1].result.data) = <<-5>>
  /\ Top.tasks[1].result.valid_services = 0
  /\ Top.tasks[1].result.expired_services = 1
  /\ Top.tasks[1].result.total_services = 1

\* C21: a result is never changed after its creation: while the cache
\* holds the same object for an identifier, the value of that object stays
\* the one the fetcher created, and so does the value of an object the
\* store holds.
C21_ResultsNeverChange ==
  [][/\ \A s \in DOMAIN query_cache \cap DOMAIN query_cache' :
          query_cache'[s].oid = query_cache[s].oid
            => query_cache'[s] = query_cache[s]
     /\ \A s \in DOMAIN query_results \cap DOMAIN query_results' :
          query_results'[s].oid = query_results[s].oid
            => query_results'[s] = query_results[s]]_vars

\* The parts of the text that are 8 to 20 alphanumeric characters long.
Accepted(parts) ==
  {k \in DOMAIN parts :
     /\ Len(parts[k]) \in 8..20
     /\ \A i \in DOMAIN parts[k] : parts[k][i] \in Alnum}

\* C22: parse_serial_numbers returns the upper-cased accepted parts of the
\* text, a part being accepted if and only if it is 8 to 20 alphanumeric
\* characters long, each once and in the order of their first occurrence;
\* every other part is reported invalid and every later occurrence of an
\* accepted part is reported as a duplicate; the batch started is what it
\* returned.
C22_ParseSerialNumbers ==
  LET parts == serial_text
      p == ParseParts(parts)
      acc == Accepted(parts)
      First(k) == \A j \in acc : upper(parts[j]) = upper(parts[k]) => j >= k
      firsts == {k \in acc : First(k)}
  IN /\ Len(p.unique) = Cardinality(firsts)
     /\ \A i \in DOMAIN p.unique :
          \E k \in firsts :
            /\ p.unique[i] = upper(parts[k])
            /\ Cardinality({j \in firsts : j < k}) = i - 1
     /\ \A i, j \in DOMAIN p.unique : p.unique[i] = p.unique[j] => i = j
     /\ Len(p.invalid) = Len(parts) - Cardinality(acc)
     /\ Len(p.duplicates) = Cardinality(acc) - Cardinality(firsts)
     /\ Depth = 1 => Top.serials = p.unique

\* The same identifier entered twice, once in lower case, after a part of
\* 21 characters: 1 invalid, 1 duplicate and a batch of size 1.
C22_Witness ==
  /\ serial_text = <<Rep("A", 21), Rep("a", 8), Rep("A", 8)>>
  /\ Depth = 1
  /\ Top.serials = <<Rep("A", 8)>>
  /\ Len(ParseParts(serial_text).duplicates) = 1
  /\ Len(ParseParts(serial_text).invalid) = 1

\* C23: the result of every query that has ended carries as index the
\* position of its identifier in the batch of the query and as total the
\* size of that batch, also when it was answered from the cache.
C23_PositionAndTotalOfBatch ==
  \A d \in 1..Depth : \A i \in DOMAIN stack[d].tasks :
    Finished(stack[d].tasks[i]) =>
      /\ stack[d].tasks[i].result.index = i
      /\ stack[d].tasks[i].result.total = Len(stack[d].serials)

\* C24: while a batch is executing (its buttons being disabled from
\* prepare_query to cleanup_query) no step is a confirmed clear_all and no
\* step starts another batch, although root.update() dispatches UI events.
\* A clear_all that finds the store empty and no file does what clear_input
\* does, which the claim leaves enabled, and is not counted.
C24_NoClickDuringBatch ==
  [][Depth > 0 =>
       /\ ~(clear_all(TRUE) /\ (query_results # EmptyMap \/ file.exists))
       /\ Len(stack') <= Len(stack)]_vars

Pending(s) ==
  \E d \in 1..Depth : \E i \in DOMAIN stack[d].tasks :
    /\ stack[d].serials[i] = s
    /\ \/ stack[d].tasks[i].pc # "handled"
       \/ stack[d].pc = "update_collect" /\ stack[d].cur = i

\* Every identifier of the cache has the cached result as its store entry,
\* or a running batch has still to store it.
CachedAreStored ==
  \A s \in DOMAIN query_cache :
    \/ s \in DOMAIN query_results /\ query_results[s] = query_cache[s]
    \/ Pending(s)

=============================================================================
